---- MODULE Spec2Model ----
(***************************************************************************)
(* next.config.js: a CommonJS module whose body builds one object literal, *)
(* nextConfig, and assigns it to module.exports.  The host loads the       *)
(* module (evaluating it on the first load, answering later loads from     *)
(* the module cache) and its request handlers read the object through the  *)
(* reference they were given.                                              *)
(*                                                                         *)
(* JavaScript strings are modelled as sequences of one-character strings,  *)
(* so that a hostname can be inspected character by character; a value of  *)
(* an array is tagged with its typeof.  Objects are records: DOMAIN gives  *)
(* the own keys.                                                           *)
(***************************************************************************)
EXTENDS Integers, Sequences, FiniteSets, TLC

\* Number of concurrent host request handlers holding the configuration.
NReaders == 2
\* Number of load() calls each handler may make.
MaxLoads == 2

Readers == 1..NReaders

----------------------------------------------------------------------------
(* Values *)

Str(cs) == [type |-> "string", chars |-> cs]
Num(ds) == [type |-> "number", chars |-> ds]
Undefined == [type |-> "undefined"]
\* module.exports before the module body has run: the empty object {}.
EmptyObject == [k \in {} |-> TRUE]

images_unsplash_com == <<"i", "m", "a", "g", "e", "s", ".", "u", "n", "s", "p", "l", "a", "s", "h", ".", "c", "o", "m">>
ik_imagekit_io == <<"i", "k", ".", "i", "m", "a", "g", "e", "k", "i", "t", ".", "i", "o">>
tailark_com == <<"t", "a", "i", "l", "a", "r", "k", ".", "c", "o", "m">>
html_tailus_io == <<"h", "t", "m", "l", ".", "t", "a", "i", "l", "u", "s", ".", "i", "o">>

\* Other strings used as inputs.
a_com == <<"a", ".", "c", "o", "m">>
b_com == <<"b", ".", "c", "o", "m">>
not_a_host == <<"n", "o", "t", " ", "a", " ", "h", "o", "s", "t", "!">>
evil_example_com == <<"e", "v", "i", "l", ".", "e", "x", "a", "m", "p", "l", "e", ".", "c", "o", "m">>
unsplash_com == <<"u", "n", "s", "p", "l", "a", "s", "h", ".", "c", "o", "m">>
https_tailark_com == <<"h", "t", "t", "p", "s", ":", "/", "/", "t", "a", "i", "l", "a", "r", "k", ".", "c", "o", "m">>
forty_two == <<"4", "2">>

----------------------------------------------------------------------------
(* The object literal of the file *)

nextConfigDup ==
  [experimental |-> [appDir |-> TRUE],
   images |-> [domains |-> <<Str(images_unsplash_com), Str(ik_imagekit_io),
                             Str(tailark_com), Str(images_unsplash_com)>>]]

nextConfigUrl ==
  [experimental |-> [appDir |-> TRUE],
   images |-> [domains |-> <<Str(images_unsplash_com), Str(ik_imagekit_io),
                             Str(https_tailark_com), Str(html_tailus_io)>>]]

nextConfigExtraFlag ==
  [experimental |-> [appDir |-> TRUE, serverActions |-> TRUE],
   images |-> [domains |-> <<Str(images_unsplash_com), Str(ik_imagekit_io),
                             Str(tailark_com), Str(html_tailus_io)>>]]

nextConfigAppDirOff ==
  [experimental |-> [appDir |-> FALSE],
   images |-> [domains |-> <<Str(images_unsplash_com), Str(ik_imagekit_io),
                             Str(tailark_com), Str(html_tailus_io)>>]]

nextConfigMissingHost ==
  [experimental |-> [appDir |-> TRUE],
   images |-> [domains |-> <<Str(images_unsplash_com), Str(ik_imagekit_io),
                             Str(tailark_com)>>]]

nextConfig ==
  [experimental |-> [appDir |-> TRUE],
   images |-> [domains |-> <<Str(images_unsplash_com), Str(ik_imagekit_io),
                             Str(tailark_com), Str(html_tailus_io)>>]]

\* Object literals of the same form with other hostname lists (reordered,
\* repeated, malformed or empty): the module body is the same for each.
Literals ==
  { nextConfig,
    [images |-> [domains |-> <<Str(a_com), Str(b_com)>>]],
    [images |-> [domains |-> <<Str(b_com), Str(a_com)>>]],
    [images |-> [domains |-> <<Str(a_com), Str(b_com), Str(a_com)>>]],
    [images |-> [domains |-> <<Str(not_a_host), Str(a_com)>>]],
    [images |-> [domains |-> <<Str(a_com), Num(forty_two)>>]],
    [experimental |-> [appDir |-> FALSE], images |-> [domains |-> <<>>]] }

\* Hostnames of the remote images the host is asked for.
RequestHosts ==
  { images_unsplash_com, ik_imagekit_io, tailark_com, html_tailus_io,
    evil_example_com, unsplash_com, a_com }

----------------------------------------------------------------------------
(* State *)

VARIABLES
  source,         \* the object literal written in the file
  moduleState,    \* "unloaded", "loaded" or "error": the module in the cache
  moduleExports,  \* the object module.exports refers to
  evalCount,      \* how many times the module body has run
  returned,       \* the structures the load() calls returned, in call order
  pc,             \* each handler's position
  loads,          \* each handler's number of load() calls
  obsFlags,       \* what each handler read as config.experimental
  obsDomains,     \* the entries of config.images.domains each handler has read
  reqHost,        \* the hostname of the image request each handler served
  decision        \* "none", "accept" or "reject"

vars == <<source, moduleState, moduleExports, evalCount, returned, pc, loads,
          obsFlags, obsDomains, reqHost, decision>>

readerVars == <<pc, loads, obsFlags, obsDomains, reqHost, decision>>

InitRest ==
  /\ moduleState = "unloaded"
  /\ moduleExports = EmptyObject
  /\ evalCount = 0
  /\ returned = <<>>
  /\ pc = [r \in Readers |-> "idle"]
  /\ loads = [r \in Readers |-> 0]
  /\ obsFlags = [r \in Readers |-> <<>>]
  /\ obsDomains = [r \in Readers |-> <<>>]
  /\ reqHost = [r \in Readers |-> <<>>]
  /\ decision = [r \in Readers |-> "none"]

Init == source = nextConfig /\ InitRest

InitLiteral == source \in Literals /\ InitRest

----------------------------------------------------------------------------
(* Module evaluation and load *)

\* A variant that builds the list through a Set, dropping repeated entries.
RECURSIVE Dedup(_)
Dedup(seq) ==
  IF seq = <<>> THEN <<>>
  ELSE LET front == Dedup(SubSeq(seq, 1, Len(seq) - 1))
           last == seq[Len(seq)]
       IN IF \E i \in 1..Len(front) : front[i] = last
            THEN front
            ELSE Append(front, last)

EvaluateDedup(lit) ==
  [lit EXCEPT !.images.domains = Dedup(@)]

\* The module body: the literal's properties and array elements become the
\* object's, in the order written.  Nothing is checked, nothing can throw.
Evaluate(lit) == lit

\* A variant whose export is a factory: every load runs the body again.
LoadReevaluating(r) ==
  /\ pc[r] \in {"idle", "done"}
  /\ loads[r] < MaxLoads
  /\ moduleState # "error"
  /\ moduleExports' = Evaluate(source)
  /\ moduleState' = "loaded"
  /\ evalCount' = evalCount + 1
  /\ returned' = Append(returned, moduleExports')
  /\ pc' = [pc EXCEPT ![r] = "flags"]
  /\ loads' = [loads EXCEPT ![r] = @ + 1]
  /\ obsFlags' = [obsFlags EXCEPT ![r] = <<>>]
  /\ obsDomains' = [obsDomains EXCEPT ![r] = <<>>]
  /\ reqHost' = [reqHost EXCEPT ![r] = <<>>]
  /\ decision' = [decision EXCEPT ![r] = "none"]
  /\ UNCHANGED source

\* A variant that pushes one more host onto the shared list on every load
\* after the first.
LoadAppending(r) ==
  /\ pc[r] \in {"idle", "done"}
  /\ loads[r] < MaxLoads
  /\ moduleState # "error"
  /\ IF moduleState = "unloaded"
       THEN /\ moduleExports' = Evaluate(source)
            /\ moduleState' = "loaded"
            /\ evalCount' = evalCount + 1
       ELSE /\ moduleExports' =
                 [moduleExports EXCEPT !.images.domains = Append(@, Str(a_com))]
            /\ UNCHANGED <<moduleState, evalCount>>
  /\ returned' = Append(returned, moduleExports')
  /\ pc' = [pc EXCEPT ![r] = "flags"]
  /\ loads' = [loads EXCEPT ![r] = @ + 1]
  /\ obsFlags' = [obsFlags EXCEPT ![r] = <<>>]
  /\ obsDomains' = [obsDomains EXCEPT ![r] = <<>>]
  /\ reqHost' = [reqHost EXCEPT ![r] = <<>>]
  /\ decision' = [decision EXCEPT ![r] = "none"]
  /\ UNCHANGED source

\* A variant that validates the hostname list while the module body runs and
\* throws on an entry that is not a string.
LoadValidating(r) ==
  /\ pc[r] \in {"idle", "done"}
  /\ loads[r] < MaxLoads
  /\ moduleState # "error"
  /\ IF moduleState = "unloaded"
       THEN IF \E i \in 1..Len(source.images.domains) :
                 source.images.domains[i].type # "string"
              THEN /\ moduleState' = "error"
                   /\ UNCHANGED <<moduleExports, evalCount, returned, readerVars>>
              ELSE /\ moduleExports' = Evaluate(source)
                   /\ moduleState' = "loaded"
                   /\ evalCount' = evalCount + 1
                   /\ returned' = Append(returned, moduleExports')
                   /\ pc' = [pc EXCEPT ![r] = "flags"]
                   /\ loads' = [loads EXCEPT ![r] = @ + 1]
                   /\ obsFlags' = [obsFlags EXCEPT ![r] = <<>>]
                   /\ obsDomains' = [obsDomains EXCEPT ![r] = <<>>]
                   /\ reqHost' = [reqHost EXCEPT ![r] = <<>>]
                   /\ decision' = [decision EXCEPT ![r] = "none"]
       ELSE /\ UNCHANGED <<moduleExports, moduleState, evalCount>>
            /\ returned' = Append(returned, moduleExports)
            /\ pc' = [pc EXCEPT ![r] = "flags"]
            /\ loads' = [loads EXCEPT ![r] = @ + 1]
            /\ obsFlags' = [obsFlags EXCEPT ![r] = <<>>]
            /\ obsDomains' = [obsDomains EXCEPT ![r] = <<>>]
            /\ reqHost' = [reqHost EXCEPT ![r] = <<>>]
            /\ decision' = [decision EXCEPT ![r] = "none"]
  /\ UNCHANGED source

\* load(): the first load runs the module body and caches module.exports;
\* every later load returns the cached module.exports.  The handler starts a
\* fresh pass over the object it was given.
Load(r) ==
  /\ pc[r] \in {"idle", "done"}
  /\ loads[r] < MaxLoads
  /\ moduleState # "error"
  /\ IF moduleState = "unloaded"
       THEN /\ moduleExports' = Evaluate(source)
            /\ moduleState' = "loaded"
            /\ evalCount' = evalCount + 1
       ELSE UNCHANGED <<moduleExports, moduleState, evalCount>>
  /\ returned' = Append(returned, moduleExports')
  /\ pc' = [pc EXCEPT ![r] = "flags"]
  /\ loads' = [loads EXCEPT ![r] = @ + 1]
  /\ obsFlags' = [obsFlags EXCEPT ![r] = <<>>]
  /\ obsDomains' = [obsDomains EXCEPT ![r] = <<>>]
  /\ reqHost' = [reqHost EXCEPT ![r] = <<>>]
  /\ decision' = [decision EXCEPT ![r] = "none"]
  /\ UNCHANGED source

----------------------------------------------------------------------------
(* Reads through the exported reference *)

\* Property read: the value, or undefined when the object has no such key.
Get(obj, key) == IF key \in DOMAIN obj THEN obj[key] ELSE Undefined

\* config.experimental
ReadExperimental(r) ==
  /\ pc[r] = "flags"
  /\ obsFlags' = [obsFlags EXCEPT ![r] = <<Get(moduleExports, "experimental")>>]
  /\ pc' = [pc EXCEPT ![r] = "domains"]
  /\ UNCHANGED <<source, moduleState, moduleExports, evalCount, returned,
                 loads, obsDomains, reqHost, decision>>

\* A variant that walks the list with shift(), removing what it reads.
ReadDomainShifting(r) ==
  /\ pc[r] = "domains"
  /\ Len(moduleExports.images.domains) >= 1
  /\ obsDomains' = [obsDomains EXCEPT ![r] = Append(@, moduleExports.images.domains[1])]
  /\ moduleExports' = [moduleExports EXCEPT !.images.domains = Tail(@)]
  /\ UNCHANGED <<source, moduleState, evalCount, returned,
                 pc, loads, obsFlags, reqHost, decision>>

\* config.images.domains[i], for the next index i of the handler's pass.
ReadDomain(r) ==
  /\ pc[r] = "domains"
  /\ Len(obsDomains[r]) < Len(moduleExports.images.domains)
  /\ obsDomains' = [obsDomains EXCEPT ![r] =
                      Append(@, moduleExports.images.domains[Len(@) + 1])]
  /\ UNCHANGED <<source, moduleState, moduleExports, evalCount, returned,
                 pc, loads, obsFlags, reqHost, decision>>

\* The pass ends at index = config.images.domains.length.
EndRead(r) ==
  /\ pc[r] = "domains"
  /\ Len(obsDomains[r]) >= Len(moduleExports.images.domains)
  /\ pc' = [pc EXCEPT ![r] = "serve"]
  /\ UNCHANGED <<source, moduleState, moduleExports, evalCount, returned,
                 loads, obsFlags, obsDomains, reqHost, decision>>

\* The host's image handler: a remote image is fetched only when its
\* hostname is listed in config.images.domains.
HandleImageRequest(r, h) ==
  /\ pc[r] = "serve"
  /\ reqHost' = [reqHost EXCEPT ![r] = <<h>>]
  /\ decision' = [decision EXCEPT ![r] =
        IF \E i \in 1..Len(moduleExports.images.domains) :
              moduleExports.images.domains[i] = Str(h)
          THEN "accept" ELSE "reject"]
  /\ pc' = [pc EXCEPT ![r] = "done"]
  /\ UNCHANGED <<source, moduleState, moduleExports, evalCount, returned,
                 loads, obsFlags, obsDomains>>

Next ==
  \/ \E r \in Readers : Load(r)
  \/ \E r \in Readers : ReadExperimental(r)
  \/ \E r \in Readers : ReadDomain(r)
  \/ \E r \in Readers : EndRead(r)
  \/ \E r \in Readers, h \in RequestHosts : HandleImageRequest(r, h)

\* The shipped file.
Spec == Init /\ [][Next]_vars

\* The same module body over each literal of Literals.
SpecLiteral == InitLiteral /\ [][Next]_vars

TypeOK ==
  /\ source \in Literals
  /\ moduleState \in {"unloaded", "loaded", "error"}
  /\ evalCount \in 0..(NReaders * MaxLoads)
  /\ Len(returned) <= NReaders * MaxLoads
  /\ pc \in [Readers -> {"idle", "flags", "domains", "serve", "done"}]
  /\ loads \in [Readers -> 0..MaxLoads]
  /\ decision \in [Readers -> {"none", "accept", "reject"}]
  /\ \A r \in Readers : Len(obsFlags[r]) <= 1 /\ Len(reqHost[r]) <= 1

----------------------------------------------------------------------------
(* Properties *)

Domains == moduleExports.images.domains

Loaded == moduleState = "loaded"

Letters ==
  {"a", "b", "c", "d", "e", "f", "g", "h", "i", "j", "k", "l", "m", "n", "o",
   "p", "q", "r", "s", "t", "u", "v", "w", "x", "y", "z",
   "A", "B", "C", "D", "E", "F", "G", "H", "I", "J", "K", "L", "M", "N", "O",
   "P", "Q", "R", "S", "T", "U", "V", "W", "X", "Y", "Z"}

Digits == {"0", "1", "2", "3", "4", "5", "6", "7", "8", "9"}

\* A DNS hostname: non-empty labels of letters, digits and hyphens, separated
\* by single dots, no label starting or ending with a hyphen.
ValidHostname(cs) ==
  /\ Len(cs) >= 1
  /\ \A i \in 1..Len(cs) : cs[i] \in Letters \cup Digits \cup {"-", "."}
  /\ cs[1] \notin {".", "-"}
  /\ cs[Len(cs)] \notin {".", "-"}
  /\ \A i \in 1..(Len(cs) - 1) :
        cs[i] = "." => cs[i + 1] \notin {".", "-"}
  /\ \A i \in 2..Len(cs) :
        cs[i] = "." => cs[i - 1] # "-"

\* C1: once the module is loaded, through every sequence of load() calls and
\* reads, the module body has run exactly once and the exported object's
\* experimental and images.domains still have the values of the literal.
C1_NeverMutated ==
  Loaded =>
    /\ evalCount = 1
    /\ moduleExports.experimental = nextConfig.experimental
    /\ Len(Domains) = Len(nextConfig.images.domains)
    /\ \A i \in 1..Len(Domains) : Domains[i] = nextConfig.images.domains[i]

C1_Witness ==
  /\ Loaded
  /\ Len(returned) >= 3
  /\ \E r \in Readers : pc[r] = "done" /\ loads[r] = MaxLoads

\* C2: every load() call returns the same structure, with the same
\* hostnames, as the first call.
C2_LoadIdempotent ==
  \A i \in 1..Len(returned) :
    /\ returned[i] = returned[1]
    /\ {returned[i].images.domains[k] : k \in 1..Len(returned[i].images.domains)}
         = {returned[1].images.domains[k] : k \in 1..Len(returned[1].images.domains)}

C2_Witness ==
  /\ Len(returned) >= 3
  /\ \A r \in Readers : loads[r] >= 1

\* C3: no two distinct positions of images.domains hold the same hostname.
C3_NoDuplicates ==
  Loaded =>
    \A i, j \in 1..Len(Domains) : i # j => Domains[i] # Domains[j]

C3_Witness ==
  /\ Loaded
  /\ Len(Domains) = 4
  /\ \E r \in Readers : pc[r] = "serve" /\ Len(obsDomains[r]) = 4

\* C4: every entry of images.domains is a non-empty string that is a valid
\* DNS hostname; the pattern accepts 'images.unsplash.com' and rejects
\* 'not a host!'.
C4_ValidHostnames ==
  /\ Loaded =>
       \A i \in 1..Len(Domains) :
         /\ Domains[i].type = "string"
         /\ Domains[i].chars # <<>>
         /\ ValidHostname(Domains[i].chars)
  /\ ValidHostname(images_unsplash_com)
  /\ ~ValidHostname(not_a_host)

C4_Witness ==
  /\ Loaded
  /\ \E r \in Readers :
       /\ Len(obsDomains[r]) >= 1
       /\ obsDomains[r][1] = Str(images_unsplash_com)
       /\ ValidHostname(obsDomains[r][1].chars)

\* C5: the key set of experimental is exactly {appDir}.
C5_KnownFlags ==
  Loaded => DOMAIN moduleExports.experimental = {"appDir"}

C5_Witness ==
  /\ Loaded
  /\ \E r \in Readers :
       /\ pc[r] = "domains"
       /\ obsFlags[r] # <<>>
       /\ DOMAIN obsFlags[r][1] = {"appDir"}

\* C6: load() returns the declared hostname list element by element, in the
\* declared order; for the literal { images: { domains: ['a.com','b.com'] } }
\* it returns ['a.com','b.com'].
C6_OrderPreserved ==
  \A i \in 1..Len(returned) :
    LET got == returned[i].images.domains
        declared == source.images.domains
    IN /\ Len(got) = Len(declared)
       /\ \A k \in 1..Len(declared) : got[k] = declared[k]
       /\ declared = <<Str(a_com), Str(b_com)>>
            => got = <<Str(a_com), Str(b_com)>>

C6_Witness ==
  /\ source.images.domains = <<Str(a_com), Str(b_com)>>
  /\ Len(returned) >= 2
  /\ returned[2].images.domains = <<Str(a_com), Str(b_com)>>

\* C7: load() never ends in an error, and a literal with a malformed entry
\* (not a string, or not a hostname) is returned unchanged.
C7_NoValidation ==
  /\ moduleState # "error"
  /\ \A i \in 1..Len(returned) : returned[i] = source
  /\ Loaded => moduleExports = source

C7_Witness ==
  /\ Loaded
  /\ Len(returned) >= 1
  /\ \E k \in 1..Len(source.images.domains) :
       source.images.domains[k].type # "string"
  /\ \E r \in Readers :
       \E k \in 1..Len(obsDomains[r]) : obsDomains[r][k] = Num(forty_two)

\* C8: under every interleaving, any two handlers have read the same
\* experimental value and the same entry at every index both have read, and
\* what a handler has read is what the object still holds.
C8_ReadersAgree ==
  \A r1, r2 \in Readers :
    /\ (obsFlags[r1] # <<>> /\ obsFlags[r2] # <<>>) => obsFlags[r1] = obsFlags[r2]
    /\ \A i \in 1..Len(obsDomains[r1]) :
         /\ i <= Len(Domains) /\ obsDomains[r1][i] = Domains[i]
         /\ i <= Len(obsDomains[r2]) => obsDomains[r1][i] = obsDomains[r2][i]

C8_Witness ==
  \E r1, r2 \in Readers :
    /\ r1 # r2
    /\ pc[r1] = "domains" /\ pc[r2] = "domains"
    /\ Len(obsDomains[r1]) = 2
    /\ Len(obsDomains[r2]) = 3

\* C9: an image request is accepted exactly when its hostname is one of
\* images.unsplash.com, ik.imagekit.io, tailark.com and html.tailus.io; a
\* request to any other hostname is rejected.
C9_OnlyListedHosts ==
  \A r \in Readers :
    reqHost[r] # <<>> =>
      /\ decision[r] \in {"accept", "reject"}
      /\ decision[r] = "accept" <=>
           reqHost[r][1] \in {images_unsplash_com, ik_imagekit_io,
                              tailark_com, html_tailus_io}

C9_Witness ==
  \E r1, r2 \in Readers :
    /\ decision[r1] = "accept" /\ reqHost[r1] = <<html_tailus_io>>
    /\ decision[r2] = "reject" /\ reqHost[r2] = <<unsplash_com>>

\* C10: the exported object has exactly the top-level fields experimental
\* and images, and experimental.appDir is true.
C10_TwoFields ==
  Loaded =>
    /\ DOMAIN moduleExports = {"experimental", "images"}
    /\ moduleExports.experimental.appDir = TRUE

C10_Witness ==
  /\ Loaded
  /\ \E r \in Readers :
       /\ pc[r] = "serve"
       /\ obsFlags[r] # <<>>
       /\ obsFlags[r][1].appDir = TRUE

====
